---- MODULE Spec2Model ----
(***************************************************************************)
(* Model of cloudformation_seed/cfn_template.py: CloudformationTemplate    *)
(* (key building, sync) and CloudformationCollection (manifest parsing,    *)
(* template binding, deployable listing, de-duplicated sync).              *)
(*                                                                         *)
(* Python strings are sequences of one-character strings, so that          *)
(* startswith, dirname, basename, strip, replace and split are computed    *)
(* as the library computes them.                                           *)
(***************************************************************************)
EXTENDS Integers, Sequences, FiniteSets, TLC

VARIABLES
    environment_parameters, \* the `stacks` entry of the manifest (raw)
    substack_name,          \* the substack filter
    template_files,         \* scan_directories() result: <<[key, path], ...>>
    stacks,                 \* self.stacks
    templates,              \* self.templates
    pc,                     \* "new" | "built" | "failed" | "idle"
    error,                  \* what the constructor raised, "none" otherwise
    u,                      \* outcome of the last list_deployable() call
    syncCalls,              \* indices of the templates whose sync() ran in the last sync()
    syncStatus,             \* "none" | "returned" | "raised"
    keyCall                 \* a direct build_s3_key() call and its result

vars == <<environment_parameters, substack_name, template_files, stacks, templates,
          pc, error, u, syncCalls, syncStatus, keyCall>>

collectionVars == <<environment_parameters, substack_name, template_files, stacks,
                    templates, pc, error, u, syncCalls, syncStatus>>

\* ------------------------------------------------------------------ bounds

MaxStacks == 2
MaxFiles == 2
MaxGroups == 2
MaxKeyLen == 3

\* ------------------------------------------------------------------ strings

SeqsUpTo(S, n) == UNION {[1..k -> S] : k \in 0..n}

Slash == "/"

S3Scheme == <<"s", "3", ":", "/", "/">>

\* str.startswith
StartsWith(s, p) == Len(s) >= Len(p) /\ SubSeq(s, 1, Len(p)) = p

\* str.rfind('/') + 1: the index of the last slash, 0 when there is none
RFindSlash(p) ==
    IF \E i \in 1..Len(p) : p[i] = Slash
    THEN CHOOSE i \in 1..Len(p) : p[i] = Slash /\ \A j \in (i+1)..Len(p) : p[j] # Slash
    ELSE 0

\* str.rstrip('/')
RECURSIVE RStripSlash(_)
RStripSlash(s) ==
    IF s # <<>> /\ s[Len(s)] = Slash THEN RStripSlash(SubSeq(s, 1, Len(s) - 1)) ELSE s

\* str.lstrip('/')
RECURSIVE LStripSlash(_)
LStripSlash(s) ==
    IF s # <<>> /\ s[1] = Slash THEN LStripSlash(Tail(s)) ELSE s

\* str.strip('/')
StripSlash(s) == RStripSlash(LStripSlash(s))

\* posixpath.dirname
dirname(p) ==
    LET head == SubSeq(p, 1, RFindSlash(p))
    IN  IF head # <<>> /\ (\E i \in 1..Len(head) : head[i] # Slash)
        THEN RStripSlash(head)
        ELSE head

\* posixpath.basename
basename(p) == SubSeq(p, RFindSlash(p) + 1, Len(p))

\* str.replace(old, ''), old non-empty: every occurrence, scanning left to right
RECURSIVE RemoveAll(_, _)
RemoveAll(s, old) ==
    IF s = <<>> THEN <<>>
    ELSE IF StartsWith(s, old) THEN RemoveAll(SubSeq(s, Len(old) + 1, Len(s)), old)
    ELSE <<Head(s)>> \o RemoveAll(Tail(s), old)

\* str.split('/', 1): one part when there is no slash, else two
SplitOnce(s) ==
    IF \E i \in 1..Len(s) : s[i] = Slash
    THEN LET i == CHOOSE k \in 1..Len(s) : s[k] = Slash /\ \A j \in 1..(k-1) : s[j] # Slash
         IN  <<SubSeq(s, 1, i - 1), SubSeq(s, i + 1, Len(s))>>
    ELSE <<s>>

\* ------------------------------------------------------------------ values

\* An optional boolean entry of a stack declaration: the key is absent, or it is
\* the Python value True or False.
Flags == {"absent", "True", "False"}

\* Template texts and their digests. calculate_checksum is sha1(...).hexdigest():
\* modelled as a fixed injective map onto slash-free strings of one length.
Texts == {"T1", "T2"}

calculate_checksum(text) == IF text = "T1" THEN <<"0", "f">> ELSE <<"f", "0">>

\* CloudformationTemplateBody(text); NoBody stands for the attribute
\* template_body never having been assigned.
CloudformationTemplateBody(text) == [text |-> text, checksum |-> calculate_checksum(text)]

NoBody == [text |-> "none", checksum |-> <<>>]

KeyA == <<"a">>
KeyB == <<"d", "/", "b">>
KeyC == <<"c">>
RemoteRef == <<"s", "3", ":", "/", "/", "k", "/", "t">>
NameX == <<"x">>

\* the s3_key_prefix the collection is constructed with
S3KeyPrefix == <<"p">>

\* the file scanned under each logical key, and what open(path).read() returns
PathOf(key) == <<"/", "r", "/">> \o key

FileText(path) == IF path = PathOf(KeyB) THEN "T2" ELSE "T1"

\* ------------------------------------------------------------------ CloudformationTemplate

\* CloudformationTemplate.build_s3_key; predictable_name is
\* template_parameters.get('predictable_name'), "absent" when the key is missing
build_s3_key_ignores_checksum(predictable_name, template_key, template_checksum) ==
    IF predictable_name = "True" THEN template_key
    ELSE StripSlash(dirname(template_key) \o <<Slash>> \o basename(template_key))

build_s3_key(predictable_name, template_key, template_checksum) ==
    IF predictable_name = "True" THEN template_key
    ELSE StripSlash(dirname(template_key) \o <<Slash>>
                    \o template_checksum \o <<"-">> \o basename(template_key))

\* CloudformationTemplate.__init__, the branch `if s3_bucket and file_path`
LocalTemplate(template_key, file_path, template_parameters) ==
    LET body == CloudformationTemplateBody(FileText(file_path))
        generated_key == build_s3_key(template_parameters.predictable_name,
                                      template_key, body.checksum)
    IN  [template_key |-> template_key,
         template_parameters |-> template_parameters,
         kind |-> "upload",
         bucket |-> <<>>,
         s3_key |-> S3KeyPrefix \o <<Slash>> \o generated_key,
         template_body |-> body]

\* CloudformationTemplate.__init__, the branch `elif template_key.startswith("s3://")`;
\* defined when the reference has a slash after the bucket name
RemoteTemplate(template_key, template_parameters) ==
    LET parts == SplitOnce(RemoveAll(template_key, S3Scheme))
    IN  [template_key |-> template_key,
         template_parameters |-> template_parameters,
         kind |-> "download",
         bucket |-> parts[1],
         s3_key |-> parts[2],
         template_body |-> NoBody]

\* the unpacking `s3_bucket_name, self.s3_key = ...split("/", 1)` raises ValueError
\* when split returns a single part
RemoteRefUnpacks(template_key) == Len(SplitOnce(RemoveAll(template_key, S3Scheme))) = 2

\* the properties name and template
NameOf(t) == t.template_parameters.name

TemplateOf(t) == t.template_parameters.template

\* ------------------------------------------------------------------ CloudformationCollection

NoStacks == [kind |-> "absent", items |-> <<>>, groups |-> <<>>]

FlatStacks(items) == [kind |-> "list", items |-> items, groups |-> <<>>]

GroupedStacks(groups) == [kind |-> "dict", items |-> <<>>, groups |-> groups]

RECURSIVE Concat(_)
Concat(groups) ==
    IF groups = <<>> THEN <<>> ELSE Head(groups).items \o Concat(Tail(groups))

ParseOk(ss) == [error |-> "none", stacks |-> ss]

ParseRaises(msg) == [error |-> msg, stacks |-> <<>>]

\* CloudformationCollection.parse_stacks. `raw_stacks and isinstance(...)` is false
\* for an empty list and for an empty dict.
parse_stacks_filters_flat(raw_stacks, filter) ==
    IF raw_stacks.kind = "list" /\ raw_stacks.items # <<>> /\ filter = <<>>
        THEN ParseOk(raw_stacks.items)
    ELSE IF raw_stacks.kind = "dict" /\ raw_stacks.groups # <<>>
        THEN IF \E i \in DOMAIN raw_stacks.groups : raw_stacks.groups[i].name = filter
             THEN ParseOk(raw_stacks.groups[CHOOSE i \in DOMAIN raw_stacks.groups :
                                              raw_stacks.groups[i].name = filter].items)
             ELSE IF filter = <<>>
                  THEN ParseOk(Concat(raw_stacks.groups))
                  ELSE ParseRaises("Unable to find substack")
    ELSE ParseRaises("Invalid stacks definition")

parse_stacks_concat_first(raw_stacks, filter) ==
    IF raw_stacks.kind = "list" /\ raw_stacks.items # <<>>
        THEN ParseOk(raw_stacks.items)
    ELSE IF raw_stacks.kind = "dict" /\ raw_stacks.groups # <<>>
        THEN IF filter = <<>>
             THEN ParseOk(Concat(raw_stacks.groups))
             ELSE IF \E i \in DOMAIN raw_stacks.groups : raw_stacks.groups[i].name = filter
                  THEN ParseOk(raw_stacks.groups[CHOOSE i \in DOMAIN raw_stacks.groups :
                                                   raw_stacks.groups[i].name = filter].items)
                  ELSE ParseRaises("Unable to find substack")
    ELSE ParseRaises("Invalid stacks definition")

parse_stacks_ignores_filter(raw_stacks, filter) ==
    IF raw_stacks.kind = "list" /\ raw_stacks.items # <<>>
        THEN ParseOk(raw_stacks.items)
    ELSE IF raw_stacks.kind = "dict" /\ raw_stacks.groups # <<>>
        THEN ParseOk(Concat(raw_stacks.groups))
    ELSE ParseRaises("Invalid stacks definition")

parse_stacks(raw_stacks, filter) ==
    IF raw_stacks.kind = "list" /\ raw_stacks.items # <<>>
        THEN ParseOk(raw_stacks.items)
    ELSE IF raw_stacks.kind = "dict" /\ raw_stacks.groups # <<>>
        THEN IF \E i \in DOMAIN raw_stacks.groups : raw_stacks.groups[i].name = filter
             THEN ParseOk(raw_stacks.groups[CHOOSE i \in DOMAIN raw_stacks.groups :
                                              raw_stacks.groups[i].name = filter].items)
             ELSE IF filter = <<>>
                  THEN ParseOk(Concat(raw_stacks.groups))
                  ELSE ParseRaises("Unable to find substack")
    ELSE ParseRaises("Invalid stacks definition")

\* CloudformationCollection.find_template_file: the index of the first scanned
\* file with that key, 0 when the method raises
find_template_file(files, template_key) ==
    IF \E i \in DOMAIN files : files[i].key = template_key
    THEN CHOOSE i \in DOMAIN files :
            files[i].key = template_key /\ \A j \in 1..(i-1) : files[j].key # template_key
    ELSE 0

\* __init__, the loop over self.stacks: one template appended per declaration,
\* until a constructor raises
RECURSIVE BindDeclared(_, _, _)
BindDeclared(ts, ss, files) ==
    IF ss = <<>> THEN [error |-> "none", templates |-> ts]
    ELSE LET xs == Head(ss)
             template_key == xs.template
         IN  IF StartsWith(template_key, S3Scheme)
             THEN IF RemoteRefUnpacks(template_key)
                  THEN BindDeclared(Append(ts, RemoteTemplate(template_key, xs)),
                                    Tail(ss), files)
                  ELSE [error |-> "ValueError", templates |-> ts]
             ELSE IF find_template_file(files, template_key) = 0
                  THEN [error |-> "Template file not found", templates |-> ts]
                  ELSE BindDeclared(
                           Append(ts, LocalTemplate(template_key,
                               files[find_template_file(files, template_key)].path, xs)),
                           Tail(ss), files)

ImplicitParameters(key) ==
    [name |-> key, template |-> key, deployable |-> "absent", predictable_name |-> "absent"]

\* __init__, the loop over self.template_files
RECURSIVE AppendImplicit_no_skip(_, _)
AppendImplicit_no_skip(ts, files) ==
    IF files = <<>> THEN ts
    ELSE LET xf == Head(files)
         IN  AppendImplicit_no_skip(
                 Append(ts, LocalTemplate(xf.key, xf.path, ImplicitParameters(xf.key))),
                 Tail(files))

RECURSIVE AppendImplicit(_, _)
AppendImplicit(ts, files) ==
    IF files = <<>> THEN ts
    ELSE LET xf == Head(files)
         IN  IF \E i \in DOMAIN ts : ts[i].template_key = xf.key
             THEN AppendImplicit(ts, Tail(files))
             ELSE AppendImplicit(
                      Append(ts, LocalTemplate(xf.key, xf.path, ImplicitParameters(xf.key))),
                      Tail(files))

IsInvalidStackConfiguration(e) ==
    e \in {"Unable to find substack", "Invalid stacks definition", "Template file not found",
           "Template not found"}

\* CloudformationCollection.list_deployable: the templates are returned as
\* their positions in self.templates (object identity); list.pop() takes the last
\* element of the matches.
Matches(ts, name) == {i \in DOMAIN ts : NameOf(ts[i]) = name}

Last(S) == CHOOSE i \in S : \A j \in S : j <= i

RECURSIVE list_deployable_no_skip(_, _)
list_deployable_no_skip(ss, ts) ==
    IF ss = <<>> THEN [error |-> "none", value |-> <<>>]
    ELSE LET xs == Head(ss)
             rest == list_deployable_no_skip(Tail(ss), ts)
         IN  IF Matches(ts, xs.name) = {}
             THEN [error |-> "Template not found", value |-> <<>>]
             ELSE IF rest.error # "none" THEN rest
             ELSE [error |-> "none", value |-> <<Last(Matches(ts, xs.name))>> \o rest.value]

RECURSIVE list_deployable(_, _)
list_deployable(ss, ts) ==
    IF ss = <<>> THEN [error |-> "none", value |-> <<>>]
    ELSE LET xs == Head(ss)
             rest == list_deployable(Tail(ss), ts)
         IN  IF xs.deployable = "False" THEN rest
             ELSE IF Matches(ts, xs.name) = {}
             THEN [error |-> "Template not found", value |-> <<>>]
             ELSE IF rest.error # "none" THEN rest
             ELSE [error |-> "none", value |-> <<Last(Matches(ts, xs.name))>> \o rest.value]

\* CloudformationCollection.sync, the list comprehension: the positions of the
\* templates whose `template` is carried by no earlier template
Positions(ts) == [i \in 1..Len(ts) |-> i]

SyncOrder_keeps_last(ts) ==
    SelectSeq(Positions(ts),
              LAMBDA n : \A m \in (n+1)..Len(ts) : TemplateOf(ts[m]) # TemplateOf(ts[n]))

SyncOrder(ts) ==
    SelectSeq(Positions(ts),
              LAMBDA n : \A m \in 1..(n-1) : TemplateOf(ts[m]) # TemplateOf(ts[n]))

\* CloudformationTemplate.sync: an upload leaves the template as it is; a download
\* is followed by load_template_file on what was fetched
TemplateSync(t, fetched) ==
    IF t.kind = "download"
    THEN [t EXCEPT !.template_body = CloudformationTemplateBody(fetched)]
    ELSE t

\* the templates after xt.sync() ran on the positions of `done`
SyncedTemplates(ts, done, fetched) ==
    [i \in 1..Len(ts) |->
        IF \E k \in DOMAIN done : done[k] = i THEN TemplateSync(ts[i], fetched) ELSE ts[i]]

\* ------------------------------------------------------------------ inputs

\* stack declarations of a manifest: name, template, and the optional entries
DeclPool ==
    {[name |-> n, template |-> t, deployable |-> "absent", predictable_name |-> "absent"] :
        n \in {NameX, KeyB}, t \in {KeyA, RemoteRef}}
    \cup {[name |-> NameX, template |-> KeyA, deployable |-> d,
           predictable_name |-> "absent"] : d \in {"True", "False"}}
    \cup {[name |-> KeyB, template |-> RemoteRef, deployable |-> "False",
           predictable_name |-> "absent"]}
    \cup {[name |-> NameX, template |-> KeyA, deployable |-> "absent",
           predictable_name |-> "True"]}

\* the declarations grouped manifests are made of
GroupDeclPool ==
    {[name |-> NameX, template |-> RemoteRef, deployable |-> "absent",
      predictable_name |-> "absent"],
     [name |-> KeyB, template |-> KeyA, deployable |-> "absent",
      predictable_name |-> "absent"]}

GroupNames == {<<>>, <<"g">>, <<"h">>}

Filters == {<<>>, <<"g">>}

GroupEntries ==
    {[name |-> n, items |-> l] : n \in GroupNames, l \in SeqsUpTo(GroupDeclPool, MaxStacks)}

\* a dict has each key once; its iteration order is the declared order
GroupSeqs ==
    {g \in SeqsUpTo(GroupEntries, MaxGroups) :
        /\ \A i, j \in DOMAIN g : i # j => g[i].name # g[j].name
        /\ Len(Concat(g)) <= MaxStacks}

Manifests ==
    {NoStacks}
    \cup {FlatStacks(l) : l \in SeqsUpTo(DeclPool, MaxStacks)}
    \cup {GroupedStacks(g) : g \in GroupSeqs}

\* scan_directories(path, '**/*.cf.yaml'): (key, path) pairs, each key once, in a
\* fixed order
FilePool == <<KeyA, KeyB, KeyC, <<"e">> >>

ScanResults ==
    {[i \in 1..n |-> [key |-> FilePool[i], path |-> PathOf(FilePool[i])]] :
        n \in 0..(IF MaxFiles < Len(FilePool) THEN MaxFiles ELSE Len(FilePool))}

KeyAlphabet == {Slash, "a", "b"}

\* logical keys are relative file paths: not empty, no slash at either end
LogicalKeys ==
    {k \in SeqsUpTo(KeyAlphabet, MaxKeyLen) :
        k # <<>> /\ k[1] # Slash /\ k[Len(k)] # Slash}

Checksums == {calculate_checksum(t) : t \in Texts}

NoKeyCall ==
    [predictable_name |-> "absent", template_key |-> <<>>, checksums |-> <<>>,
     results |-> <<>>, called |-> FALSE]

NotListed == [called |-> FALSE, error |-> "none", value |-> <<>>]

\* ------------------------------------------------------------------ the collection

Init ==
    /\ environment_parameters \in Manifests
    /\ substack_name \in Filters
    /\ template_files \in ScanResults
    /\ stacks = <<>>
    /\ templates = <<>>
    /\ pc = "new"
    /\ error = "none"
    /\ u = NotListed
    /\ syncCalls = <<>>
    /\ syncStatus = "none"
    /\ keyCall = NoKeyCall

\* CloudformationCollection.__init__
Construct ==
    /\ pc = "new"
    /\ LET parsed == parse_stacks(environment_parameters, substack_name)
           bound == BindDeclared(<<>>, parsed.stacks, template_files)
       IN  IF parsed.error # "none"
           THEN /\ pc' = "failed"
                /\ error' = parsed.error
                /\ UNCHANGED <<stacks, templates>>
           ELSE IF bound.error # "none"
           THEN /\ pc' = "failed"
                /\ error' = bound.error
                /\ stacks' = parsed.stacks
                /\ templates' = bound.templates
           ELSE /\ pc' = "built"
                /\ error' = "none"
                /\ stacks' = parsed.stacks
                /\ templates' = AppendImplicit(bound.templates, template_files)
    /\ UNCHANGED <<environment_parameters, substack_name, template_files, u,
                   syncCalls, syncStatus, keyCall>>

\* CloudformationCollection.list_deployable
ListDeployable ==
    /\ pc = "built"
    /\ LET r == list_deployable(stacks, templates)
       IN  u' = [called |-> TRUE, error |-> r.error, value |-> r.value]
    /\ UNCHANGED <<environment_parameters, substack_name, template_files, stacks,
                   templates, pc, error, syncCalls, syncStatus, keyCall>>

\* CloudformationCollection.sync, every upload and download succeeding; `fetched`
\* is what the remote object holds
Sync ==
    /\ pc = "built"
    /\ \E fetched \in Texts :
          templates' = SyncedTemplates(templates, SyncOrder(templates), fetched)
    /\ syncCalls' = SyncOrder(templates)
    /\ syncStatus' = "returned"
    /\ UNCHANGED <<environment_parameters, substack_name, template_files, stacks,
                   pc, error, u, keyCall>>

\* CloudformationCollection.sync, the k-th upload or download raising a transport
\* error: the calls before it have completed, the ones after it are not made
SyncRaises ==
    /\ pc = "built"
    /\ \E k \in 1..Len(SyncOrder(templates)), fetched \in Texts :
          /\ templates' = SyncedTemplates(templates,
                                          SubSeq(SyncOrder(templates), 1, k - 1), fetched)
          /\ syncCalls' = SubSeq(SyncOrder(templates), 1, k)
    /\ syncStatus' = "raised"
    /\ UNCHANGED <<environment_parameters, substack_name, template_files, stacks,
                   pc, error, u, keyCall>>

Next == Construct \/ ListDeployable \/ Sync \/ SyncRaises

Spec == Init /\ [][Next]_vars

\* ------------------------------------------------------------------ build_s3_key alone

InitKey ==
    /\ environment_parameters = NoStacks
    /\ substack_name = <<>>
    /\ template_files = <<>>
    /\ stacks = <<>>
    /\ templates = <<>>
    /\ pc = "idle"
    /\ error = "none"
    /\ u = NotListed
    /\ syncCalls = <<>>
    /\ syncStatus = "none"
    /\ \E p \in Flags, k \in LogicalKeys, c1 \in Checksums, c2 \in Checksums :
          keyCall = [predictable_name |-> p, template_key |-> k, checksums |-> <<c1, c2>>,
                     results |-> <<>>, called |-> FALSE]

\* build_s3_key called for one template key with each of the two checksums
BuildS3Key ==
    /\ pc = "idle"
    /\ ~keyCall.called
    /\ keyCall' = [keyCall EXCEPT
          !.called = TRUE,
          !.results = [i \in 1..2 |->
              build_s3_key(keyCall.predictable_name, keyCall.template_key,
                           keyCall.checksums[i])]]
    /\ UNCHANGED collectionVars

NextKey == BuildS3Key

SpecKey == InitKey /\ [][NextKey]_vars

\* ------------------------------------------------------------------ properties

Constructed == pc \in {"built", "failed"}

ParseErrors == {"Unable to find substack", "Invalid stacks definition"}

\* the first position of self.templates carrying the reference of position n
FirstWithReference(n) ==
    CHOOSE m \in DOMAIN templates :
        /\ TemplateOf(templates[m]) = TemplateOf(templates[n])
        /\ \A l \in 1..(m-1) : TemplateOf(templates[l]) # TemplateOf(templates[n])

\* C1: when sync() returns, every template reference present in the collection has
\* had exactly one CloudformationTemplate.sync() call, made on the first template
\* of the collection carrying it, and the calls were made in collection order.
C1_SyncOncePerReference ==
    syncStatus = "returned" =>
        /\ \A i, j \in DOMAIN syncCalls : i < j => syncCalls[i] < syncCalls[j]
        /\ \A n \in DOMAIN templates :
            /\ Cardinality({k \in DOMAIN syncCalls :
                   TemplateOf(templates[syncCalls[k]]) = TemplateOf(templates[n])}) = 1
            /\ \E k \in DOMAIN syncCalls : syncCalls[k] = FirstWithReference(n)

C1_Witness ==
    /\ syncStatus = "returned"
    /\ Len(templates) > Len(stacks)
    /\ \E i, j \in DOMAIN stacks :
          /\ i < j
          /\ stacks[i].template = stacks[j].template
          /\ stacks[i] # stacks[j]
    /\ Len(syncCalls) >= 2

\* C2 (as claimed): after construction no two entries of templates share a
\* template_key.
C2_UniqueLogicalKeys ==
    pc = "built" =>
        \A i, j \in DOMAIN templates :
            i # j => templates[i].template_key # templates[j].template_key

\* C2 (amended): templates holds one entry per stack declaration, in order, each
\* keyed by its declaration's template, followed by the implicit entries; an
\* implicit entry shares its template_key with no other entry, so two entries
\* share a key only when both are declared and reference the same template.
C2_OneEntryPerDeclaration ==
    pc = "built" =>
        /\ Len(templates) >= Len(stacks)
        /\ \A i \in DOMAIN stacks :
            /\ templates[i].template_key = stacks[i].template
            /\ templates[i].template_parameters = stacks[i]
        /\ \A i, j \in DOMAIN templates :
            (i # j /\ templates[i].template_key = templates[j].template_key)
                => (i <= Len(stacks) /\ j <= Len(stacks))

C2_Witness ==
    /\ pc = "built"
    /\ Len(templates) > Len(stacks)
    /\ \E i, j \in DOMAIN stacks : i # j /\ stacks[i].template = stacks[j].template
    /\ \E i \in DOMAIN stacks, k \in DOMAIN template_files :
          stacks[i].template = template_files[k].key

\* C3: the name lookup of list_deployable() returns the first template of the
\* collection carrying the name (first match wins).
C3_FirstMatchWins ==
    (u.called /\ u.error = "none") =>
        \A k \in DOMAIN u.value :
            \A j \in DOMAIN templates :
                NameOf(templates[j]) = NameOf(templates[u.value[k]]) => u.value[k] <= j

\* the keys of the scanned files no stack declaration references, in scan order
RECURSIVE UnreferencedKeys(_)
UnreferencedKeys(files) ==
    IF files = <<>> THEN <<>>
    ELSE IF \E i \in DOMAIN stacks : stacks[i].template = Head(files).key
         THEN UnreferencedKeys(Tail(files))
         ELSE <<Head(files).key>> \o UnreferencedKeys(Tail(files))

\* C4: every scanned file no declaration references is appended after the
\* declared sources, in scan order, as an implicit local source with name =
\* template = its key, and no implicit source is in the list list_deployable()
\* returns.
C4_ImplicitNeverDeployable ==
    pc = "built" =>
        /\ Len(templates) = Len(stacks) + Len(UnreferencedKeys(template_files))
        /\ \A k \in DOMAIN UnreferencedKeys(template_files) :
            LET t == templates[Len(stacks) + k]
            IN  /\ t.template_key = UnreferencedKeys(template_files)[k]
                /\ NameOf(t) = t.template_key
                /\ TemplateOf(t) = t.template_key
                /\ t.kind = "upload"
        /\ u.called => \A k \in DOMAIN u.value : u.value[k] <= Len(stacks)

NotFalse(xs) == xs.deployable # "False"

\* C5: list_deployable() returns one template per declaration whose deployable
\* flag is not False, in manifest order: the names of the result are the names of
\* the declarations with the `deployable: false` ones removed.
C5_DeployableOrder ==
    u.called =>
        /\ u.error = "none"
        /\ Len(u.value) = Len(SelectSeq(stacks, NotFalse))
        /\ \A k \in DOMAIN u.value :
            NameOf(templates[u.value[k]]) = SelectSeq(stacks, NotFalse)[k].name

C5_Witness ==
    /\ u.called
    /\ Len(stacks) >= 2
    /\ stacks[1].deployable = "False"
    /\ stacks[2].deployable # "False"
    /\ stacks[1].name # stacks[2].name
    /\ Len(u.value) = 1

\* C6 (as claimed): for every flat list and every filter, parse_stacks() returns
\* the list verbatim.
C6_FlatVerbatim ==
    (Constructed /\ environment_parameters.kind = "list") =>
        /\ error \notin ParseErrors
        /\ stacks = environment_parameters.items

\* C6 (amended): for every non-empty flat list and every filter, parse_stacks()
\* returns the list verbatim; for the empty list it raises InvalidStackConfiguration
\* ("Invalid stacks definition").
C6_NonEmptyFlatVerbatim ==
    (Constructed /\ environment_parameters.kind = "list") =>
        IF environment_parameters.items # <<>>
        THEN /\ error \notin ParseErrors
             /\ stacks = environment_parameters.items
        ELSE /\ pc = "failed"
             /\ error = "Invalid stacks definition"

C6_Witness ==
    /\ pc = "built"
    /\ environment_parameters.kind = "list"
    /\ substack_name # <<>>
    /\ Len(stacks) = 2
    /\ stacks[1] # stacks[2]
    /\ stacks = environment_parameters.items

GroupNamed(name) ==
    CHOOSE i \in DOMAIN environment_parameters.groups :
        environment_parameters.groups[i].name = name

HasGroup(name) ==
    \E i \in DOMAIN environment_parameters.groups :
        environment_parameters.groups[i].name = name

\* C7 (as claimed): on a grouped manifest with the empty filter, parse_stacks()
\* returns the concatenation of every group's list in declared order, for every
\* set of group names.
C7_GroupedConcat ==
    (/\ Constructed
     /\ environment_parameters.kind = "dict"
     /\ environment_parameters.groups # <<>>
     /\ substack_name = <<>>) =>
        /\ error \notin ParseErrors
        /\ stacks = Concat(environment_parameters.groups)

\* C7 (amended): on a grouped manifest with the empty filter, parse_stacks() returns
\* the concatenation of every group's list in declared order provided the mapping
\* is non-empty and no group is named by the empty string; when a group is named
\* by the empty string the result is that group's list alone, and for an empty
\* mapping it raises InvalidStackConfiguration ("Invalid stacks definition").
C7_GroupedConcatUnlessEmptyName ==
    (Constructed /\ environment_parameters.kind = "dict" /\ substack_name = <<>>) =>
        IF environment_parameters.groups = <<>>
        THEN pc = "failed" /\ error = "Invalid stacks definition"
        ELSE /\ error \notin ParseErrors
             /\ stacks = IF HasGroup(<<>>)
                         THEN environment_parameters.groups[GroupNamed(<<>>)].items
                         ELSE Concat(environment_parameters.groups)

C7_Witness ==
    /\ pc = "built"
    /\ environment_parameters.kind = "dict"
    /\ substack_name = <<>>
    /\ Len(environment_parameters.groups) = 2
    /\ ~HasGroup(<<>>)
    /\ \A i \in DOMAIN environment_parameters.groups :
          Len(environment_parameters.groups[i].items) = 1
    /\ stacks = environment_parameters.groups[1].items
                    \o environment_parameters.groups[2].items
    /\ stacks[1] # stacks[2]

\* C8: on a grouped manifest with a non-empty filter, parse_stacks() returns exactly
\* the list of the group the filter names when there is one, and otherwise the
\* constructor fails with InvalidStackConfiguration and no collection is produced.
C8_FilterSelectsGroup ==
    (Constructed /\ environment_parameters.kind = "dict" /\ substack_name # <<>>) =>
        IF HasGroup(substack_name)
        THEN /\ error \notin ParseErrors
             /\ stacks = environment_parameters.groups[GroupNamed(substack_name)].items
        ELSE /\ pc = "failed"
             /\ error \in ParseErrors
             /\ IsInvalidStackConfiguration(error)
             /\ templates = <<>>

C8_Witness ==
    /\ pc = "built"
    /\ environment_parameters.kind = "dict"
    /\ substack_name # <<>>
    /\ Len(environment_parameters.groups) = 2
    /\ HasGroup(substack_name)
    /\ \A i \in DOMAIN environment_parameters.groups :
          environment_parameters.groups[i].items # <<>>
    /\ stacks = environment_parameters.groups[GroupNamed(substack_name)].items

\* C9 (as claimed): build_s3_key returns the key verbatim when predictable_name is
\* True, and otherwise <dirname>/<checksum>-<basename>; two different checksums
\* never give the same key, the same checksum gives the same key.
C9_KeyFormat ==
    keyCall.called =>
        /\ \A i \in 1..2 :
            keyCall.results[i] =
                IF keyCall.predictable_name = "True" THEN keyCall.template_key
                ELSE dirname(keyCall.template_key) \o <<Slash>> \o keyCall.checksums[i]
                        \o <<"-">> \o basename(keyCall.template_key)
        /\ (keyCall.predictable_name # "True" /\ keyCall.checksums[1] # keyCall.checksums[2])
              => keyCall.results[1] # keyCall.results[2]
        /\ keyCall.checksums[1] = keyCall.checksums[2]
              => keyCall.results[1] = keyCall.results[2]

\* the directory part as it appears in the generated key
KeyDirectory(template_key) == LStripSlash(dirname(template_key))

\* C9 (amended): build_s3_key returns the key verbatim when predictable_name is
\* True; otherwise it returns <dirname>/<checksum>-<basename> with the leading
\* slashes removed, which for a key without a directory part is
\* <checksum>-<basename>; two different checksums never give the same key, the
\* same checksum gives the same key.
C9_KeyFormatStripped ==
    keyCall.called =>
        /\ \A i \in 1..2 :
            keyCall.results[i] =
                IF keyCall.predictable_name = "True" THEN keyCall.template_key
                ELSE IF KeyDirectory(keyCall.template_key) = <<>>
                THEN keyCall.checksums[i] \o <<"-">> \o basename(keyCall.template_key)
                ELSE KeyDirectory(keyCall.template_key) \o <<Slash>> \o keyCall.checksums[i]
                        \o <<"-">> \o basename(keyCall.template_key)
        /\ (keyCall.predictable_name # "True" /\ keyCall.checksums[1] # keyCall.checksums[2])
              => keyCall.results[1] # keyCall.results[2]
        /\ keyCall.checksums[1] = keyCall.checksums[2]
              => keyCall.results[1] = keyCall.results[2]

C9_Witness ==
    /\ keyCall.called
    /\ keyCall.predictable_name = "False"
    /\ dirname(keyCall.template_key) = <<>>
    /\ keyCall.checksums[1] # keyCall.checksums[2]
    /\ Len(keyCall.results[1]) = Len(keyCall.template_key) + Len(keyCall.checksums[1]) + 1

\* C10: a remote source has no body after construction, and once sync() has
\* returned every remote source of the collection is bound.
C10_RemoteBoundAfterSync ==
    /\ (pc = "built" /\ syncStatus = "none") =>
          \A i \in DOMAIN templates :
              templates[i].kind = "download" => templates[i].template_body = NoBody
    /\ syncStatus = "returned" =>
          \A i \in DOMAIN templates :
              templates[i].kind = "download" => templates[i].template_body # NoBody

====
